---- MODULE Spec2Model ----
(***************************************************************************)
(* A model of p3_parser: the table-driven shift-reduce parser of           *)
(* src/src/parser.c, its parsing tables (automaton.c), its stack           *)
(* (stack.c) and the token stream it consumes (src/src/token.c).           *)
(***************************************************************************)
EXTENDS Integers, Sequences, FiniteSets, TLC

NULL == "NULL"

(***************************************************************************)
(* include/token.h: TokenType                                              *)
(***************************************************************************)
TOKEN_NUM == 0
TOKEN_PLUS == 1
TOKEN_STAR == 2
TOKEN_LPAREN == 3
TOKEN_RPAREN == 4
TOKEN_EOF == 5
TOKEN_INVALID == 6

(***************************************************************************)
(* automaton.h: ActionType                                                 *)
(***************************************************************************)
ACTION_SHIFT == 0
ACTION_REDUCE == 1
ACTION_ACCEPT == 2
ACTION_ERROR == 3

(***************************************************************************)
(* automaton.c: the packed action encoding                                 *)
(***************************************************************************)
ACTION_SHIFT_BIT == 65536
ACTION_REDUCE_BIT == 131072
ACTION_ACCEPT_BIT == 196608
ACTION_ERROR_BIT == 262144
ACTION_MASK == 983040
VALUE_MASK == 65535

NON_TERMINAL_S == 0
NON_TERMINAL_E == 1
NON_TERMINAL_T == 2
NON_TERMINAL_F == 3

NUM_TERMINALS == 6
NUM_NON_TERMINALS == 4
NUM_STATES == 11
NUM_PRODUCTIONS == 7

\* ACTION_MASK and VALUE_MASK lie below 2^20, so x & mask of a two's complement
\* int x is (x mod 2^20) & mask, also for a negative x.
MaskModulus == 1048576

RECURSIVE AndBits(_, _)
AndBits(a, b) ==
    IF a = 0 \/ b = 0 THEN 0
    ELSE (a % 2) * (b % 2) + 2 * AndBits(a \div 2, b \div 2)

\* x & m of C, for a mask m of 0..MaskModulus-1.
BitAnd(x, m) == AndBits(x % MaskModulus, m)

\* a | b of C, for operands that are not negative.
BitOr(a, b) == a + b - AndBits(a, b)

automaton_get_action_type(action) ==
    LET type_bits == BitAnd(action, ACTION_MASK)
    IN  IF type_bits = ACTION_SHIFT_BIT THEN ACTION_SHIFT
        ELSE IF type_bits = ACTION_REDUCE_BIT THEN ACTION_REDUCE
        ELSE IF type_bits = ACTION_ACCEPT_BIT THEN ACTION_ACCEPT
        ELSE ACTION_ERROR

automaton_get_action_value(action) == BitAnd(action, VALUE_MASK)

\* automaton_create_action whose Accept carries the value as the others do.
automaton_create_action_accept_keeps_value(type, value) ==
    IF type = ACTION_SHIFT THEN BitOr(ACTION_SHIFT_BIT, BitAnd(value, VALUE_MASK))
    ELSE IF type = ACTION_REDUCE THEN BitOr(ACTION_REDUCE_BIT, BitAnd(value, VALUE_MASK))
    ELSE IF type = ACTION_ACCEPT THEN BitOr(ACTION_ACCEPT_BIT, BitAnd(value, VALUE_MASK))
    ELSE ACTION_ERROR_BIT

automaton_create_action(type, value) ==
    IF type = ACTION_SHIFT THEN BitOr(ACTION_SHIFT_BIT, BitAnd(value, VALUE_MASK))
    ELSE IF type = ACTION_REDUCE THEN BitOr(ACTION_REDUCE_BIT, BitAnd(value, VALUE_MASK))
    ELSE IF type = ACTION_ACCEPT THEN ACTION_ACCEPT_BIT
    ELSE ACTION_ERROR_BIT

(***************************************************************************)
(* automaton.c: grammar_productions, copied by setup_productions.          *)
(* Entry 0 is the dummy production of the 1-based numbering.               *)
(***************************************************************************)
grammar_productions ==
    [p \in 0..NUM_PRODUCTIONS |->
        CASE p = 0 -> [lhs |-> 0, rhs |-> << >>, rhs_length |-> 0, rule_string |-> ""]
          [] p = 1 -> [lhs |-> NON_TERMINAL_S, rhs |-> <<NON_TERMINAL_E>>,
                       rhs_length |-> 1, rule_string |-> "s -> e"]
          [] p = 2 -> [lhs |-> NON_TERMINAL_E,
                       rhs |-> <<NON_TERMINAL_E, TOKEN_PLUS, NON_TERMINAL_T>>,
                       rhs_length |-> 3, rule_string |-> "e -> e + t"]
          [] p = 3 -> [lhs |-> NON_TERMINAL_E, rhs |-> <<NON_TERMINAL_T>>,
                       rhs_length |-> 1, rule_string |-> "e -> t"]
          [] p = 4 -> [lhs |-> NON_TERMINAL_T,
                       rhs |-> <<NON_TERMINAL_T, TOKEN_STAR, NON_TERMINAL_F>>,
                       rhs_length |-> 3, rule_string |-> "t -> t * f"]
          [] p = 5 -> [lhs |-> NON_TERMINAL_T, rhs |-> <<NON_TERMINAL_F>>,
                       rhs_length |-> 1, rule_string |-> "t -> f"]
          [] p = 6 -> [lhs |-> NON_TERMINAL_F,
                       rhs |-> <<TOKEN_LPAREN, NON_TERMINAL_E, TOKEN_RPAREN>>,
                       rhs_length |-> 3, rule_string |-> "f -> (e)"]
          [] p = 7 -> [lhs |-> NON_TERMINAL_F, rhs |-> <<TOKEN_NUM>>,
                       rhs_length |-> 1, rule_string |-> "f -> NUM"]]

(***************************************************************************)
(* automaton.c: init_parsing_tables, as the list of its assignments in     *)
(* program order.  tbl names the array, state its row, sym its column.     *)
(***************************************************************************)
G(s, nt, target) == [tbl |-> "goto", state |-> s, sym |-> nt, val |-> target]
\* A table entry that is Accept where the code writes Reduce by rule 3.
A_accepts_for_rule3(s, t, type, value) ==
    [tbl |-> "action", state |-> s, sym |-> t,
     val |-> IF type = ACTION_REDUCE /\ value = 3
             THEN automaton_create_action(ACTION_ACCEPT, 0)
             ELSE automaton_create_action(type, value)]

A(s, t, type, value) ==
    [tbl |-> "action", state |-> s, sym |-> t, val |-> automaton_create_action(type, value)]

init_parsing_tables ==
    << G(0, NON_TERMINAL_E, 1), G(0, NON_TERMINAL_T, 2), G(0, NON_TERMINAL_F, 3),
       A(0, TOKEN_NUM, ACTION_SHIFT, 5), A(0, TOKEN_LPAREN, ACTION_SHIFT, 4),
       A(1, TOKEN_PLUS, ACTION_SHIFT, 6), A(1, TOKEN_EOF, ACTION_ACCEPT, 0),
       A(2, TOKEN_STAR, ACTION_SHIFT, 7), A(2, TOKEN_PLUS, ACTION_REDUCE, 3),
       A(2, TOKEN_RPAREN, ACTION_REDUCE, 3), A(2, TOKEN_EOF, ACTION_REDUCE, 3),
       A(3, TOKEN_PLUS, ACTION_REDUCE, 5), A(3, TOKEN_STAR, ACTION_REDUCE, 5),
       A(3, TOKEN_RPAREN, ACTION_REDUCE, 5), A(3, TOKEN_EOF, ACTION_REDUCE, 5),
       G(4, NON_TERMINAL_E, 8), G(4, NON_TERMINAL_T, 2), G(4, NON_TERMINAL_F, 3),
       A(4, TOKEN_NUM, ACTION_SHIFT, 5), A(4, TOKEN_LPAREN, ACTION_SHIFT, 4),
       A(5, TOKEN_PLUS, ACTION_REDUCE, 7), A(5, TOKEN_STAR, ACTION_REDUCE, 7),
       A(5, TOKEN_RPAREN, ACTION_REDUCE, 7), A(5, TOKEN_EOF, ACTION_REDUCE, 7),
       G(6, NON_TERMINAL_T, 9), G(6, NON_TERMINAL_F, 3),
       A(6, TOKEN_NUM, ACTION_SHIFT, 5), A(6, TOKEN_LPAREN, ACTION_SHIFT, 4),
       G(7, NON_TERMINAL_F, 10),
       A(7, TOKEN_NUM, ACTION_SHIFT, 5), A(7, TOKEN_LPAREN, ACTION_SHIFT, 4),
       A(8, TOKEN_PLUS, ACTION_SHIFT, 6), A(8, TOKEN_RPAREN, ACTION_SHIFT, 11),
       A(9, TOKEN_STAR, ACTION_SHIFT, 7), A(9, TOKEN_PLUS, ACTION_REDUCE, 2),
       A(9, TOKEN_RPAREN, ACTION_REDUCE, 2), A(9, TOKEN_EOF, ACTION_REDUCE, 2),
       A(10, TOKEN_PLUS, ACTION_REDUCE, 4), A(10, TOKEN_STAR, ACTION_REDUCE, 4),
       A(10, TOKEN_RPAREN, ACTION_REDUCE, 4), A(10, TOKEN_EOF, ACTION_REDUCE, 4),
       A(11, TOKEN_PLUS, ACTION_REDUCE, 6), A(11, TOKEN_STAR, ACTION_REDUCE, 6),
       A(11, TOKEN_RPAREN, ACTION_REDUCE, 6), A(11, TOKEN_EOF, ACTION_REDUCE, 6) >>

\* An assignment lands in the arrays automaton_init allocated only if its row
\* and column exist there; any other is a write through a pointer read past
\* the end of the row-pointer array.
InBounds(w) ==
    /\ w.state \in 0..(NUM_STATES - 1)
    /\ w.sym \in 0..((IF w.tbl = "action" THEN NUM_TERMINALS ELSE NUM_NON_TERMINALS) - 1)

OutOfBoundsWrites == {k \in 1..Len(init_parsing_tables) : ~InBounds(init_parsing_tables[k])}

\* The arrays after the first k assignments of init_parsing_tables, starting
\* from the fill of automaton_init (Error actions, goto -1).
RECURSIVE TablesAfter(_)
TablesAfter(k) ==
    IF k = 0
    THEN [action_table |-> [i \in 0..(NUM_STATES - 1) |->
                              [j \in 0..(NUM_TERMINALS - 1) |->
                                 automaton_create_action(ACTION_ERROR, 0)]],
          goto_table |-> [i \in 0..(NUM_STATES - 1) |->
                              [j \in 0..(NUM_NON_TERMINALS - 1) |-> -1]]]
    ELSE LET t == TablesAfter(k - 1)
             w == init_parsing_tables[k]
         IN  IF ~InBounds(w) THEN t
             ELSE IF w.tbl = "action"
                  THEN [t EXCEPT !.action_table[w.state][w.sym] = w.val]
                  ELSE [t EXCEPT !.goto_table[w.state][w.sym] = w.val]

automaton_init ==
    LET t == TablesAfter(Len(init_parsing_tables))
    IN  [num_states |-> NUM_STATES,
         num_terminals |-> NUM_TERMINALS,
         num_non_terminals |-> NUM_NON_TERMINALS,
         num_productions |-> NUM_PRODUCTIONS,
         action_table |-> t.action_table,
         goto_table |-> t.goto_table,
         productions |-> grammar_productions]

\* What a read of table[row][col] yields; OutOfRange stands for the value of a
\* read outside the allocated arrays.
OutOfRange == -2
Load(table, row, col) ==
    IF row \in DOMAIN table /\ col \in DOMAIN table[row] THEN table[row][col] ELSE OutOfRange

\* get_action without the upper bound on state.
get_action_rows_unchecked(tables, state, token_type) ==
    IF state < 0 \/ token_type >= tables.num_terminals
    THEN automaton_create_action(ACTION_ERROR, 0)
    ELSE Load(tables.action_table, state, token_type)

\* get_action without the bound on token_type.
get_action_kinds_unchecked(tables, state, token_type) ==
    IF state < 0 \/ state >= tables.num_states
    THEN automaton_create_action(ACTION_ERROR, 0)
    ELSE Load(tables.action_table, state, token_type)

get_action(tables, state, token_type) ==
    IF state < 0 \/ state >= tables.num_states \/ token_type >= tables.num_terminals
    THEN automaton_create_action(ACTION_ERROR, 0)
    ELSE Load(tables.action_table, state, token_type)

\* get_goto_state whose bounds check turns away state 0 as well.
get_goto_state_rejects_state0(tables, state, non_terminal) ==
    IF \/ state <= 0 \/ state >= tables.num_states
       \/ non_terminal < 0 \/ non_terminal >= tables.num_non_terminals
    THEN -1
    ELSE Load(tables.goto_table, state, non_terminal)

\* get_goto_state with the two indices exchanged.
get_goto_state_swapped(tables, state, non_terminal) ==
    IF \/ state < 0 \/ state >= tables.num_states
       \/ non_terminal < 0 \/ non_terminal >= tables.num_non_terminals
    THEN -1
    ELSE Load(tables.goto_table, non_terminal, state)

get_goto_state(tables, state, non_terminal) ==
    IF \/ state < 0 \/ state >= tables.num_states
       \/ non_terminal < 0 \/ non_terminal >= tables.num_non_terminals
    THEN -1
    ELSE Load(tables.goto_table, state, non_terminal)

(***************************************************************************)
(* token.c: tokens.  gen is the lifetime of the allocation: 0 for a token  *)
(* the parser itself creates, n >= 1 for a token of the token stream of    *)
(* the n-th parser_parse call, which token_stream_free destroys.           *)
(***************************************************************************)
token_create(type, lexeme, line, position) ==
    [type |-> type, lexeme |-> lexeme, line_number |-> line, position |-> position]

Allocated(token, gen) ==
    [type |-> token.type, lexeme |-> token.lexeme, line_number |-> token.line_number,
     position |-> token.position, gen |-> gen]

TOKEN_NON_TERMINAL == 7
TOKEN_TYPE_NAMES ==
    <<"NUM", "PLUS", "STAR", "LPAREN", "RPAREN", "EOF", "INVALID", "NON_TERMINAL">>

token_type_to_string(type) ==
    IF type >= TOKEN_NUM /\ type <= TOKEN_NON_TERMINAL THEN TOKEN_TYPE_NAMES[type + 1]
    ELSE "UNKNOWN"

token_to_string(token) ==
    [type_name |-> token_type_to_string(token.type), lexeme |-> token.lexeme,
     line_number |-> token.line_number, position |-> token.position]

\* The lexeme an input file carries for a token of each kind.
Lexeme(type) ==
    CASE type = TOKEN_NUM -> "7"
      [] type = TOKEN_PLUS -> "+"
      [] type = TOKEN_STAR -> "*"
      [] type = TOKEN_LPAREN -> "("
      [] type = TOKEN_RPAREN -> ")"
      [] OTHER -> "?"

\* scan_token: the i-th token the scanner delivers from a file whose tokens
\* have the kinds file[1..Len(file)]; past them, the end-of-input token.
scan_token(file, i, gen) ==
    IF i <= Len(file)
    THEN Allocated(token_create(file[i], Lexeme(file[i]), 1, i - 1), gen)
    ELSE Allocated(token_create(TOKEN_EOF, "EOF", 1, Len(file)), gen)

\* A TokenStream: file is what the input file holds, scanned the number of
\* tokens in the list from head, cur the index of current in that list.
NoStream == [valid |-> FALSE, file |-> << >>, scanned |-> 0, cur |-> 0, gen |-> 0]

\* token_stream_create that scans the second token along with the first.
token_stream_create_reads_ahead(file, gen) ==
    [valid |-> TRUE, file |-> file, scanned |-> 2, cur |-> 1, gen |-> gen]

token_stream_create(file, gen) ==
    [valid |-> TRUE, file |-> file, scanned |-> 1, cur |-> 1, gen |-> gen]

Current(stream) == scan_token(stream.file, stream.cur, stream.gen)

\* get_next_token that scans two tokens and keeps the second.
get_next_token_skip(stream) ==
    IF ~stream.valid THEN stream
    ELSE IF Current(stream).type # TOKEN_EOF
         THEN [stream EXCEPT !.cur = @ + 2, !.scanned = @ + 2]
         ELSE stream

\* get_next_token that returns the current token without advancing.
get_next_token_stuck(stream) == stream

get_next_token(stream) ==
    IF ~stream.valid THEN stream
    ELSE IF Current(stream).type # TOKEN_EOF
         THEN IF stream.cur < stream.scanned
              THEN [stream EXCEPT !.cur = @ + 1]
              ELSE [stream EXCEPT !.cur = @ + 1, !.scanned = @ + 1]
         ELSE stream

(***************************************************************************)
(* stack.c: the stack, bottom entry first, top entry last.                 *)
(***************************************************************************)
stack_create == << >>

stack_is_empty(stack) == Len(stack) = 0

stack_push(stack, state, symbol) == Append(stack, [state |-> state, symbol |-> symbol])

\* What stands for the NULL a stack function returns in place of an element.
NullElement == [state |-> -1, symbol |-> Allocated(token_create(-1, "", 0, 0), 0)]

\* stack_pop that refuses to pop the last entry left on the stack.
stack_pop_keeps_last(stack) ==
    IF Len(stack) <= 1
    THEN [found |-> FALSE, stack |-> stack, element |-> NullElement]
    ELSE [found |-> TRUE, stack |-> SubSeq(stack, 1, Len(stack) - 1),
          element |-> stack[Len(stack)]]

\* found is FALSE where the code returns NULL; element is what it returns.
stack_pop(stack) ==
    IF stack_is_empty(stack)
    THEN [found |-> FALSE, stack |-> stack, element |-> NullElement]
    ELSE [found |-> TRUE, stack |-> SubSeq(stack, 1, Len(stack) - 1),
          element |-> stack[Len(stack)]]

stack_peek(stack) == stack[Len(stack)]

\* A stack entry's symbol is dangling when the token stream that owned it has
\* been freed: parses counts the parser_parse calls begun, live tells whether
\* the stream of the last of them still exists.
Dangling(symbol, nparses, live) ==
    symbol.gen # 0 /\ (symbol.gen < nparses \/ ~live)

Garbage == [type_name |-> "\\garbage", lexeme |-> "\\garbage", line_number |-> 0, position |-> 0]

\* The pieces stack_to_string appends to its result: a bracket or a space,
\* and "[%d %s]" filled with an element's state and its token's string.
NoToken == [type_name |-> "", lexeme |-> "", line_number |-> 0, position |-> 0]
Text(text) == [text |-> text, state |-> 0, symbol |-> NoToken]
Element(state, symbol) == [text |-> "[%d %s]", state |-> state, symbol |-> symbol]

\* stack_to_string that appends the elements as it walks them, top first.
stack_to_string_top_first(stack, nparses, live, mode) ==
    LET count == Len(stack)
        piece(k) ==
            Element(stack[count - k + 1].state,
                    IF Dangling(stack[count - k + 1].symbol, nparses, live) /\ mode = "garbage"
                    THEN Garbage
                    ELSE token_to_string(stack[count - k + 1].symbol))
    IN  <<Text("[")>>
        \o [n \in 1..(IF count = 0 THEN 0 ELSE 2 * count - 1) |->
               IF n % 2 = 0 THEN Text(" ") ELSE piece((n + 1) \div 2)]
        \o <<Text("]")>>

\* stack_to_string: "[", then the elements gathered from the top down and
\* appended in reverse, a space before each but the first appended, then
\* "]"; mode says what a read of a destroyed token yields ("stale": its old
\* contents, "garbage": anything).
stack_to_string(stack, nparses, live, mode) ==
    LET count == Len(stack)
        elements == [k \in 1..count |-> stack[count - k + 1]]
        piece(i) ==
            Element(elements[i].state,
                    IF Dangling(elements[i].symbol, nparses, live) /\ mode = "garbage"
                    THEN Garbage
                    ELSE token_to_string(elements[i].symbol))
        \* the n-th element appended is elements[count - n + 1]
        appended == [n \in 1..(IF count = 0 THEN 0 ELSE 2 * count - 1) |->
                        IF n % 2 = 0 THEN Text(" ")
                        ELSE piece(count - ((n + 1) \div 2) + 1)]
    IN  <<Text("[")>> \o appended \o <<Text("]")>>

\* get_input_position_string that starts behind the current token.
get_input_position_string_next(stream) ==
    IF ~stream.valid THEN << >>
    ELSE LET last == IF stream.scanned < stream.cur + 5 THEN stream.scanned
                     ELSE stream.cur + 5
         IN  [k \in 1..(last - stream.cur) |->
                 token_to_string(scan_token(stream.file, stream.cur + k, stream.gen))]

get_input_position_string(stream) ==
    IF ~stream.valid THEN << >>
    ELSE LET last == IF stream.scanned < stream.cur + 4 THEN stream.scanned
                     ELSE stream.cur + 4
         IN  [k \in 1..(last - stream.cur + 1) |->
                 token_to_string(scan_token(stream.file, stream.cur + k - 1, stream.gen))]

automaton_action_to_string(action_value, tables) ==
    LET type == automaton_get_action_type(action_value)
        value == automaton_get_action_value(action_value)
    IN  IF type = ACTION_SHIFT THEN <<"Shift to state", value, "">>
        ELSE IF type = ACTION_REDUCE
             THEN IF value >= 1 /\ value <= tables.num_productions
                  THEN <<"Reduce by rule", value, tables.productions[value].rule_string>>
                  ELSE <<"Reduce by unknown rule", value, "">>
        ELSE IF type = ACTION_ACCEPT THEN <<"Accept", 0, "">>
        ELSE <<"Error", 0, "">>

(***************************************************************************)
(* parser.c: perform_shift and perform_reduce on the parser's stack and    *)
(* current_state; ok is the function's return value.                       *)
(***************************************************************************)
\* perform_shift that pushes the state it came from.
perform_shift_old_state(stack, current_state, state, token) ==
    [ok |-> TRUE, stack |-> stack_push(stack, current_state, token),
     current_state |-> current_state]

\* perform_shift that overwrites the top entry instead of pushing.
perform_shift_replaces_top(stack, current_state, state, token) ==
    [ok |-> TRUE,
     stack |-> stack_push(SubSeq(stack, 1, Len(stack) - 1), state, token),
     current_state |-> state]

perform_shift(stack, current_state, state, token) ==
    [ok |-> TRUE, stack |-> stack_push(stack, state, token), current_state |-> state]

\* A pop loop whose bound is off by one: it pops n + 1 entries.
RECURSIVE PopLoop_one_more(_, _)
PopLoop_one_more(stack, n) ==
    LET r == stack_pop(stack)
    IN  IF n = 0 \/ ~r.found THEN r ELSE PopLoop_one_more(r.stack, n - 1)

\* The pop loop of perform_reduce: n pops, stopping at the first that finds
\* the stack empty.
RECURSIVE PopLoop(_, _)
PopLoop(stack, n) ==
    IF n = 0 THEN [found |-> TRUE, stack |-> stack]
    ELSE LET r == stack_pop(stack)
         IN  IF ~r.found THEN r ELSE PopLoop(r.stack, n - 1)

\* A reduce that tags the placeholder with the production's number, not with
\* its left-hand side.
perform_reduce_tags_production(tables, stack, current_state, production_num) ==
    IF production_num <= 0 \/ production_num > tables.num_productions
    THEN [ok |-> FALSE, stack |-> stack, current_state |-> current_state]
    ELSE LET production == tables.productions[production_num]
             popped == PopLoop(stack, production.rhs_length)
         IN  IF ~popped.found \/ stack_is_empty(popped.stack)
             THEN [ok |-> FALSE, stack |-> popped.stack, current_state |-> current_state]
             ELSE LET state == stack_peek(popped.stack).state
                      goto_state == get_goto_state(tables, state, production.lhs)
                  IN  IF goto_state < 0
                      THEN [ok |-> FALSE, stack |-> popped.stack,
                            current_state |-> current_state]
                      ELSE LET lhs_token ==
                                   Allocated(token_create(production_num, "non-terminal", 0, 0), 0)
                           IN  [ok |-> TRUE,
                                stack |-> stack_push(popped.stack, goto_state, lhs_token),
                                current_state |-> goto_state]

\* A reduce that pushes the new entry without removing the popped ones.
perform_reduce_keeps_rhs(tables, stack, current_state, production_num) ==
    IF production_num <= 0 \/ production_num > tables.num_productions
    THEN [ok |-> FALSE, stack |-> stack, current_state |-> current_state]
    ELSE LET production == tables.productions[production_num]
             popped == PopLoop(stack, production.rhs_length)
         IN  IF ~popped.found \/ stack_is_empty(popped.stack)
             THEN [ok |-> FALSE, stack |-> popped.stack, current_state |-> current_state]
             ELSE LET state == stack_peek(popped.stack).state
                      goto_state == get_goto_state(tables, state, production.lhs)
                  IN  IF goto_state < 0
                      THEN [ok |-> FALSE, stack |-> popped.stack,
                            current_state |-> current_state]
                      ELSE LET lhs_token ==
                                   Allocated(token_create(production.lhs, "non-terminal", 0, 0), 0)
                           IN  [ok |-> TRUE,
                                stack |-> stack_push(stack, goto_state, lhs_token),
                                current_state |-> goto_state]

perform_reduce(tables, stack, current_state, production_num) ==
    IF production_num <= 0 \/ production_num > tables.num_productions
    THEN [ok |-> FALSE, stack |-> stack, current_state |-> current_state]
    ELSE LET production == tables.productions[production_num]
             popped == PopLoop(stack, production.rhs_length)
         IN  IF ~popped.found \/ stack_is_empty(popped.stack)
             THEN [ok |-> FALSE, stack |-> popped.stack, current_state |-> current_state]
             ELSE LET state == stack_peek(popped.stack).state
                      goto_state == get_goto_state(tables, state, production.lhs)
                  IN  IF goto_state < 0
                      THEN [ok |-> FALSE, stack |-> popped.stack,
                            current_state |-> current_state]
                      ELSE LET lhs_token ==
                                   Allocated(token_create(production.lhs, "non-terminal", 0, 0), 0)
                           IN  [ok |-> TRUE,
                                stack |-> stack_push(popped.stack, goto_state, lhs_token),
                                current_state |-> goto_state]

\* init_parser_stack that starts in state 1.
init_parser_stack_state1 ==
    stack_push(stack_create, 1, Allocated(token_create(TOKEN_EOF, "$", 0, 0), 0))

init_parser_stack == stack_push(stack_create, 0, Allocated(token_create(TOKEN_EOF, "$", 0, 0), 0))

(***************************************************************************)
(* The input files explored.                                               *)
(***************************************************************************)
\* The longest input file, in tokens, of the exhaustive enumeration.
MaxLen == 3
\* The longest sentence of the grammar added to the enumerated inputs.
MaxSentenceLen == 5
\* The longest input file of a session that calls parser_parse again on the
\* same Parser, and the number of calls of such a session.
MaxReuseLen == 1
MaxParses == 2

Kinds == {TOKEN_NUM, TOKEN_PLUS, TOKEN_STAR, TOKEN_LPAREN, TOKEN_RPAREN, TOKEN_INVALID}
Terminals == {TOKEN_NUM, TOKEN_PLUS, TOKEN_STAR, TOKEN_LPAREN, TOKEN_RPAREN}
\* The kinds in the files of a session that reuses its Parser: with them a
\* call can accept, fail on its first token, and fail with a terminal left on
\* the stack.
ReuseKinds == {TOKEN_NUM, TOKEN_PLUS, TOKEN_LPAREN}

SeqsUpTo(S, n) == UNION {[1..k -> S] : k \in 0..n}

(***************************************************************************)
(* The language of grammar_productions, by derivation:                     *)
(*   s -> e,  e -> e + t | t,  t -> t * f | f,  f -> ( e ) | NUM           *)
(***************************************************************************)
RECURSIVE DerivesE(_), DerivesT(_), DerivesF(_)
DerivesF(w) ==
    \/ w = <<TOKEN_NUM>>
    \/ /\ Len(w) >= 3
       /\ w[1] = TOKEN_LPAREN
       /\ w[Len(w)] = TOKEN_RPAREN
       /\ DerivesE(SubSeq(w, 2, Len(w) - 1))
DerivesT(w) ==
    \/ DerivesF(w)
    \/ \E k \in 2..(Len(w) - 1) :
          /\ w[k] = TOKEN_STAR
          /\ DerivesT(SubSeq(w, 1, k - 1))
          /\ DerivesF(SubSeq(w, k + 1, Len(w)))
DerivesE(w) ==
    \/ DerivesT(w)
    \/ \E k \in 2..(Len(w) - 1) :
          /\ w[k] = TOKEN_PLUS
          /\ DerivesE(SubSeq(w, 1, k - 1))
          /\ DerivesT(SubSeq(w, k + 1, Len(w)))
DerivesS(w) == DerivesE(w)

\* README, Test Case 1 and Test Case 3.
TestInput1 ==
    <<TOKEN_NUM, TOKEN_PLUS, TOKEN_NUM, TOKEN_STAR, TOKEN_LPAREN, TOKEN_NUM, TOKEN_PLUS,
      TOKEN_NUM, TOKEN_RPAREN>>
TestInput3 == <<TOKEN_NUM, TOKEN_PLUS, TOKEN_STAR, TOKEN_NUM, TOKEN_RPAREN>>

Sentences == {w \in SeqsUpTo(Terminals, MaxSentenceLen) : DerivesS(w)}
Inputs == SeqsUpTo(Kinds, MaxLen) \cup Sentences \cup {TestInput1, TestInput3}
ReuseInputs == SeqsUpTo(ReuseKinds, MaxReuseLen)

(***************************************************************************)
(* The state: a Parser, the locals of the parser_parse call in progress,   *)
(* the static step_number of write_debug_output, the open files, and the   *)
(* history the properties are stated on.                                   *)
(***************************************************************************)
VARIABLES
    pc,            \* "start", "idle", "running", "done", "freed", "crashed", "exited"
    debug_mode,    \* parser->debug_mode
    stack,         \* parser->stack
    current_state, \* parser->current_state
    error_count,   \* parser->error_count
    input,         \* parser->input
    debug_file,    \* parser->debug_file: 0 is NULL, n the file call n opened
    open_files,    \* the FILE objects open in the process
    step,          \* the local step of parser_parse
    result,        \* the ParseResult of the last call
    step_number,   \* the static of write_debug_output
    trace,         \* the records written to the file debug_file names
    parses,        \* the parser_parse calls begun
    call,          \* the last call begun: its file, the stack it found, whether
                   \* it entered the loop
    decided,       \* the actions the call in progress has decided, in order
    shifted,       \* the tokens its Shift steps have pushed, in order
    prev,          \* what the last call before it that entered the loop did
    query,         \* a get_action or stack_pop call made directly, and its answer
    argc,          \* main's argument count
    exit_status,   \* main's return value, NoExit until it returns
    output_file,   \* main's output_file: the input path, the main.c built, the name
    placeholders   \* the tokens perform_reduce has created and nothing has destroyed

parser == <<debug_mode, stack, current_state, error_count, input, debug_file>>
history == <<parses, call, decided, shifted, prev>>
process == <<argc, exit_status, output_file, placeholders>>
vars == <<pc, parser, open_files, step, result, step_number, trace, history, query, process>>

tables == automaton_init

NoMessage == [text |-> "", line |-> 0, position |-> 0, lexeme |-> ""]
Message(text) == [text |-> text, line |-> 0, position |-> 0, lexeme |-> ""]
\* A ParseResult that starts out successful.
NoResult_success ==
    [success |-> TRUE, error_line |-> 0, error_message |-> NoMessage, steps_taken |-> 0]

NoResult ==
    [success |-> FALSE, error_line |-> 0, error_message |-> NoMessage, steps_taken |-> 0]
NoPrev == [valid |-> FALSE, file |-> << >>, success |-> FALSE, steps_taken |-> 0,
           decided |-> << >>]
NoCall == [file |-> << >>, start |-> << >>, ran |-> FALSE]
NoQuery == [state |-> 0, token_type |-> 0, answered |-> FALSE, value |-> 0]
File(kind, n) == [kind |-> kind, n |-> n]

(***************************************************************************)
(* generate_output_filename.  A path is a sequence of characters; the      *)
(* repository holds the function twice, in utils.c (and, the same, in one  *)
(* main.c) and in another main.c, and a build links one of them.           *)
(***************************************************************************)
\* strrchr: the index of the last ch in s, 0 (NULL) when there is none.
strrchr(s, ch) ==
    LET found == {i \in 1..Len(s) : s[i] = ch}
    IN  IF found = {} THEN 0 ELSE CHOOSE i \in found : \A j \in found : j <= i

\* base_name of both definitions: behind the last '/', without one behind
\* the last '\\', without either the whole path.
base_name(input_file) ==
    LET slash == strrchr(input_file, "/")
        sep == IF slash = 0 THEN strrchr(input_file, "\\") ELSE slash
    IN  SubSeq(input_file, sep + 1, Len(input_file))

generate_output_filename(input_file) ==
    LET basename_copy == base_name(input_file)
        dot == strrchr(basename_copy, ".")
    IN  (IF dot # 0 THEN SubSeq(basename_copy, 1, dot - 1) ELSE basename_copy)
        \o <<"_p3dbg.txt">>

\* The definition in the main.c that names the output parsed_<input_file>.
main_generate_output_filename(input_file) == <<"parsed_">> \o base_name(input_file)

\* The input paths tried: up to MaxPathLen characters of PathChars.
MaxPathLen == 4
PathChars == {"/", "\\", ".", "t", "x"}
Paths == SeqsUpTo(PathChars, MaxPathLen)
Builds == {"utils.c", "main.c"}
NoName == [input_file |-> << >>, build |-> "utils.c", computed |-> FALSE, name |-> << >>]

\* main's return values and the value exit_status holds before main returns.
EXIT_SUCCESS == 0
EXIT_FAILURE == 1
NoExit == -1

\* The argument counts main is started with: 1..MaxArgc.
MaxArgc == 3

Init ==
    /\ pc = "start"
    /\ argc \in 1..MaxArgc
    /\ exit_status = NoExit
    /\ output_file = NoName
    /\ placeholders = 0
    /\ debug_mode = FALSE
    /\ stack = << >>
    /\ current_state = 0
    /\ error_count = 0
    /\ input = NoStream
    /\ debug_file = 0
    /\ open_files = {}
    /\ step = 0
    /\ result = NoResult
    /\ step_number = 0
    /\ trace = << >>
    /\ parses = 0
    /\ decided = << >>
    /\ shifted = << >>
    /\ prev = NoPrev
    /\ call = NoCall
    /\ query = NoQuery

(***************************************************************************)
(* parser_create.  automaton_init runs init_parsing_tables, whose writes   *)
(* to rows the arrays do not have go through a pointer read past the end   *)
(* of the row-pointer array: the process either traps there or the writes  *)
(* land in memory the parser never reads.                                  *)
(***************************************************************************)
parser_create(mode) ==
    /\ pc = "start"
    /\ argc = 2
    /\ pc' = "idle"
    /\ debug_mode' = mode
    /\ stack' = init_parser_stack
    /\ current_state' = 0
    /\ error_count' = 0
    /\ input' = NoStream
    /\ debug_file' = 0
    /\ UNCHANGED <<open_files, step, result, step_number, trace, history, query, process>>

parser_create_trap ==
    /\ pc = "start"
    /\ argc = 2
    /\ OutOfBoundsWrites # {}
    /\ pc' = "crashed"
    /\ UNCHANGED <<parser, open_files, step, result, step_number, trace, history, query, process>>

(***************************************************************************)
(* parser_parse, lines 52-85: the result, the two files, the first token.  *)
(* debug_ok and input_ok are the outcomes of the two fopen calls.          *)
(***************************************************************************)
\* The files a call may be given: any input for the first call on a Parser,
\* and for a later call a file of ReuseInputs after calls on such files.
EnterFiles ==
    IF pc # "idle" \/ parses >= MaxParses THEN {}
    ELSE IF parses = 0 THEN Inputs
    ELSE IF call.file \in ReuseInputs THEN ReuseInputs
    ELSE {}

parser_parse_enter(file, debug_ok, input_ok) ==
    LET n == parses + 1
        wants_debug == debug_mode
        debug_failed == wants_debug /\ ~debug_ok
        file1 == IF wants_debug THEN (IF debug_ok THEN n ELSE 0) ELSE debug_file
        open1 == IF wants_debug /\ debug_ok THEN open_files \cup {File("debug", n)}
                 ELSE open_files
    IN  /\ pc = "idle"
        /\ parses < MaxParses
        /\ file \in EnterFiles
        /\ parses' = n
        /\ call' = [file |-> file, start |-> stack, ran |-> ~debug_failed /\ input_ok]
        /\ prev' = IF call.ran
                   THEN [valid |-> TRUE, file |-> call.file, success |-> result.success,
                         steps_taken |-> result.steps_taken, decided |-> decided]
                   ELSE prev
        /\ debug_file' = file1
        /\ trace' = IF wants_debug THEN << >> ELSE trace
        /\ decided' = << >>
        /\ shifted' = << >>
        /\ step' = 0
        /\ IF debug_failed
           THEN /\ result' = [NoResult EXCEPT !.error_message =
                                 Message("Failed to open debug file")]
                /\ open_files' = open1
                /\ input' = input
                /\ pc' = "idle"
           ELSE IF ~input_ok
           THEN /\ result' = [NoResult EXCEPT !.error_message =
                                 Message("Failed to open input file")]
                /\ open_files' = open1
                /\ input' = NoStream
                /\ pc' = "idle"
           ELSE /\ result' = NoResult
                /\ open_files' = open1 \cup {File("input", n)}
                /\ input' = token_stream_create(file, n)
                /\ pc' = "running"
        /\ UNCHANGED <<debug_mode, stack, current_state, error_count, step_number, query, process>>

(***************************************************************************)
(* parser_parse, lines 86-161: one iteration of the loop per action.       *)
(***************************************************************************)
LookAhead == Current(input)
TopState == stack_peek(stack).state
ActionValue == get_action(tables, TopState, LookAhead.type)
ActionType == automaton_get_action_type(ActionValue)
ActionParam == automaton_get_action_value(ActionValue)

\* The stack renders of an iteration read every symbol on the stack; a symbol
\* whose token was destroyed with an earlier token stream reads as its old
\* contents, as anything else, or traps.
HasDangling == \E i \in 1..Len(stack) : Dangling(stack[i].symbol, parses, input.valid)
RenderModes == IF HasDangling THEN {"stale", "garbage"} ELSE {"valid"}

\* write_debug_output that writes no record for an ERROR step.
write_debug_output_no_error(operation, action, mode) ==
    IF ~debug_mode \/ operation = "ERROR"
    THEN [step_number |-> step_number, trace |-> trace]
    ELSE LET record == [step_number |-> step_number + 1,
                        current_state |-> current_state,
                        stack |-> stack_to_string(stack, parses, input.valid, mode),
                        input_pos |-> get_input_position_string(input),
                        operation |-> operation,
                        action |-> action]
         IN  [step_number |-> step_number + 1,
              trace |-> IF debug_file # 0 THEN Append(trace, record) ELSE trace]

\* write_debug_output: the record it writes and the static it advances.
write_debug_output(operation, action, mode) ==
    IF ~debug_mode THEN [step_number |-> step_number, trace |-> trace]
    ELSE LET record == [step_number |-> step_number + 1,
                        current_state |-> current_state,
                        stack |-> stack_to_string(stack, parses, input.valid, mode),
                        input_pos |-> get_input_position_string(input),
                        operation |-> operation,
                        action |-> action]
         IN  [step_number |-> step_number + 1,
              trace |-> IF debug_file # 0 THEN Append(trace, record) ELSE trace]

Decision(type, value) == [type |-> type, value |-> value]

DriverShift(mode) ==
    /\ pc = "running"
    /\ ~stack_is_empty(stack)
    /\ ActionType = ACTION_SHIFT
    /\ mode \in RenderModes
    /\ LET out == write_debug_output("SHIFT",
                      automaton_action_to_string(ActionValue, tables), mode)
           r == perform_shift(stack, current_state, ActionParam, LookAhead)
       IN  /\ step' = step + 1
           /\ step_number' = out.step_number
           /\ trace' = out.trace
           /\ stack' = r.stack
           /\ current_state' = r.current_state
           /\ input' = get_next_token(input)
           /\ decided' = Append(decided, Decision(ACTION_SHIFT, ActionParam))
           /\ shifted' = Append(shifted, LookAhead)
    /\ UNCHANGED <<pc, debug_mode, error_count, debug_file, open_files, result, parses,
                   call, prev, query, process>>

\* A Reduce case that goes on with the loop when perform_reduce fails.
DriverReduce_goes_on(mode) ==
    /\ pc = "running"
    /\ ~stack_is_empty(stack)
    /\ ActionType = ACTION_REDUCE
    /\ mode \in RenderModes
    /\ LET out == write_debug_output("REDUCE",
                      automaton_action_to_string(ActionValue, tables), mode)
           r == perform_reduce(tables, stack, current_state, ActionParam)
       IN  /\ step' = step + 1
           /\ step_number' = out.step_number
           /\ trace' = out.trace
           /\ stack' = r.stack
           /\ current_state' = r.current_state
           /\ decided' = Append(decided, Decision(ACTION_REDUCE, ActionParam))
           /\ pc' = "running"
           /\ result' = result
           /\ placeholders' = placeholders + (IF r.ok THEN 1 ELSE 0)
    /\ UNCHANGED <<debug_mode, error_count, input, debug_file, open_files, parses,
                   call, shifted, prev, query,
                   argc, exit_status, output_file>>

\* A Reduce case that also fetches the next token.
DriverReduce_advances(mode) ==
    /\ pc = "running"
    /\ ~stack_is_empty(stack)
    /\ ActionType = ACTION_REDUCE
    /\ mode \in RenderModes
    /\ LET out == write_debug_output("REDUCE",
                      automaton_action_to_string(ActionValue, tables), mode)
           r == perform_reduce(tables, stack, current_state, ActionParam)
       IN  /\ step' = step + 1
           /\ step_number' = out.step_number
           /\ trace' = out.trace
           /\ stack' = r.stack
           /\ current_state' = r.current_state
           /\ input' = get_next_token(input)
           /\ decided' = Append(decided, Decision(ACTION_REDUCE, ActionParam))
           /\ IF r.ok
              THEN /\ pc' = "running"
                   /\ result' = result
                   /\ placeholders' = placeholders + 1
              ELSE /\ pc' = "done"
                   /\ result' = [result EXCEPT !.error_message =
                                    Message("Reduce operation failed")]
                   /\ placeholders' = placeholders
    /\ UNCHANGED <<debug_mode, error_count, debug_file, open_files, parses,
                   call, shifted, prev, query,
                   argc, exit_status, output_file>>

\* The Reduce cases count the placeholder tokens alive: a perform_reduce
\* that succeeds has made one with token_create, and its pop loop has freed
\* each StackElement it popped and never the symbol the element names.
DriverReduce(mode) ==
    /\ pc = "running"
    /\ ~stack_is_empty(stack)
    /\ ActionType = ACTION_REDUCE
    /\ mode \in RenderModes
    /\ LET out == write_debug_output("REDUCE",
                      automaton_action_to_string(ActionValue, tables), mode)
           r == perform_reduce(tables, stack, current_state, ActionParam)
       IN  /\ step' = step + 1
           /\ step_number' = out.step_number
           /\ trace' = out.trace
           /\ stack' = r.stack
           /\ current_state' = r.current_state
           /\ decided' = Append(decided, Decision(ACTION_REDUCE, ActionParam))
           /\ IF r.ok
              THEN /\ pc' = "running"
                   /\ result' = result
                   /\ placeholders' = placeholders + 1
              ELSE /\ pc' = "done"
                   /\ result' = [result EXCEPT !.error_message =
                                    Message("Reduce operation failed")]
                   /\ placeholders' = placeholders
    /\ UNCHANGED <<debug_mode, error_count, input, debug_file, open_files, parses,
                   call, shifted, prev, query,
                   argc, exit_status, output_file>>

\* An Accept case that clears the stack back to its first entry.
DriverAccept_clears_stack(mode) ==
    /\ pc = "running"
    /\ ~stack_is_empty(stack)
    /\ ActionType = ACTION_ACCEPT
    /\ mode \in RenderModes
    /\ LET out == write_debug_output("ACCEPT", <<"Input accepted", 0, "">>, mode)
       IN  /\ step' = step + 1
           /\ step_number' = out.step_number
           /\ trace' = out.trace
           /\ result' = [result EXCEPT !.success = TRUE]
           /\ decided' = Append(decided, Decision(ACTION_ACCEPT, ActionParam))
           /\ pc' = "done"
           /\ stack' = init_parser_stack
           /\ current_state' = 0
    /\ UNCHANGED <<debug_mode, error_count, input, debug_file, open_files, parses, call,
                   shifted, prev, query, process>>

\* An Accept case that leaves the loop before the step is counted.
DriverAccept_uncounted(mode) ==
    /\ pc = "running"
    /\ ~stack_is_empty(stack)
    /\ ActionType = ACTION_ACCEPT
    /\ mode \in RenderModes
    /\ LET out == write_debug_output("ACCEPT", <<"Input accepted", 0, "">>, mode)
       IN  /\ step' = step
           /\ step_number' = out.step_number
           /\ trace' = out.trace
           /\ result' = [result EXCEPT !.success = TRUE]
           /\ decided' = Append(decided, Decision(ACTION_ACCEPT, ActionParam))
           /\ pc' = "done"
    /\ UNCHANGED <<parser, open_files, parses, call, shifted, prev, query, process>>

DriverAccept(mode) ==
    /\ pc = "running"
    /\ ~stack_is_empty(stack)
    /\ ActionType = ACTION_ACCEPT
    /\ mode \in RenderModes
    /\ LET out == write_debug_output("ACCEPT", <<"Input accepted", 0, "">>, mode)
       IN  /\ step' = step + 1
           /\ step_number' = out.step_number
           /\ trace' = out.trace
           /\ result' = [result EXCEPT !.success = TRUE]
           /\ decided' = Append(decided, Decision(ACTION_ACCEPT, ActionParam))
           /\ pc' = "done"
    /\ UNCHANGED <<parser, open_files, parses, call, shifted, prev, query, process>>

\* An Error case that drops the offending token and goes on with the next.
DriverError_resync(mode) ==
    /\ pc = "running"
    /\ ~stack_is_empty(stack)
    /\ ActionType = ACTION_ERROR
    /\ mode \in RenderModes
    /\ LET out == write_debug_output("ERROR", <<"Invalid syntax", 0, "">>, mode)
       IN  /\ step' = step + 1
           /\ step_number' = out.step_number
           /\ trace' = out.trace
           /\ result' = [result EXCEPT !.error_line = LookAhead.line_number]
           /\ error_count' = error_count + 1
           /\ decided' = Append(decided, Decision(ACTION_ERROR, ActionParam))
           /\ input' = IF LookAhead.type = TOKEN_EOF THEN input ELSE get_next_token(input)
           /\ pc' = IF LookAhead.type = TOKEN_EOF THEN "done" ELSE "running"
    /\ UNCHANGED <<debug_mode, stack, current_state, debug_file, open_files,
                   parses, call, shifted, prev, query, process>>

\* The Error case of the switch and, folded in, the "Stack underflow" break
\* of line 90, which decides no action and counts no step.
DriverError(mode) ==
    /\ pc = "running"
    /\ IF stack_is_empty(stack) THEN TRUE ELSE ActionType = ACTION_ERROR
    /\ mode \in RenderModes
    /\ IF stack_is_empty(stack)
       THEN /\ result' = [result EXCEPT !.error_message = Message("Stack underflow")]
            /\ UNCHANGED <<step, step_number, trace, error_count, decided>>
       ELSE LET out == write_debug_output("ERROR", <<"Invalid syntax", 0, "">>, mode)
                current_token == LookAhead
            IN  /\ step' = step + 1
                /\ step_number' = out.step_number
                /\ trace' = out.trace
                /\ result' = [result EXCEPT
                                 !.error_line = current_token.line_number,
                                 !.error_message =
                                     [text |-> "Syntax error: unexpected token",
                                      line |-> current_token.line_number,
                                      position |-> current_token.position,
                                      lexeme |-> current_token.lexeme]]
                /\ error_count' = error_count + 1
                /\ decided' = Append(decided, Decision(ACTION_ERROR, ActionParam))
    /\ pc' = "done"
    /\ UNCHANGED <<debug_mode, stack, current_state, input, debug_file, open_files,
                   parses, call, shifted, prev, query, process>>

\* A render of a stack that holds a destroyed token may trap.
DriverTrap ==
    /\ pc = "running"
    /\ HasDangling
    /\ pc' = "crashed"
    /\ UNCHANGED <<parser, open_files, step, result, step_number, trace, history, query, process>>

(***************************************************************************)
(* parser_parse, lines 163-169: the step count, token_stream_free, return. *)
(***************************************************************************)
parser_parse_exit ==
    /\ pc = "done"
    /\ pc' = "idle"
    /\ result' = [result EXCEPT !.steps_taken = step]
    /\ open_files' = open_files \ {File("input", input.gen)}
    /\ input' = NoStream
    /\ UNCHANGED <<debug_mode, stack, current_state, error_count, debug_file, step,
                   step_number, trace, history, query, process>>

(***************************************************************************)
(* parser_free: stack_free, fclose of debug_file, free_parsing_tables.     *)
(***************************************************************************)
parser_free ==
    /\ pc = "idle"
    /\ pc' = "freed"
    /\ stack' = << >>
    /\ open_files' = open_files \ {File("debug", debug_file)}
    /\ UNCHANGED <<debug_mode, current_state, error_count, input, debug_file, step,
                   result, step_number, trace, history, query, process>>

(***************************************************************************)
(* main: the usage exit on a wrong argument count, and the return after    *)
(* parser_create(true), one parser_parse and parser_free.                  *)
(***************************************************************************)
main_usage ==
    /\ pc = "start"
    /\ argc # 2
    /\ pc' = "exited"
    /\ exit_status' = EXIT_FAILURE
    /\ UNCHANGED <<parser, open_files, step, result, step_number, trace, history, query,
                   argc, output_file, placeholders>>

\* A main that returns EXIT_SUCCESS whenever the parser ran.
main_return_ran ==
    /\ pc = "freed"
    /\ debug_mode
    /\ parses = 1
    /\ pc' = "exited"
    /\ exit_status' = IF call.ran THEN EXIT_SUCCESS ELSE EXIT_FAILURE
    /\ UNCHANGED <<parser, open_files, step, result, step_number, trace, history, query,
                   argc, output_file, placeholders>>

main_return ==
    /\ pc = "freed"
    /\ debug_mode
    /\ parses = 1
    /\ pc' = "exited"
    /\ exit_status' = IF result.success THEN EXIT_SUCCESS ELSE EXIT_FAILURE
    /\ UNCHANGED <<parser, open_files, step, result, step_number, trace, history, query,
                   argc, output_file, placeholders>>

Next ==
    \/ \E mode \in BOOLEAN : parser_create(mode)
    \/ parser_create_trap
    \/ \E file \in EnterFiles, debug_ok \in BOOLEAN, input_ok \in BOOLEAN :
          parser_parse_enter(file, debug_ok, input_ok)
    \/ \E mode \in {"valid", "stale", "garbage"} : DriverShift(mode)
    \/ \E mode \in {"valid", "stale", "garbage"} : DriverReduce(mode)
    \/ \E mode \in {"valid", "stale", "garbage"} : DriverAccept(mode)
    \/ \E mode \in {"valid", "stale", "garbage"} : DriverError(mode)
    \/ DriverTrap
    \/ parser_parse_exit
    \/ parser_free
    \/ main_usage
    \/ main_return

Spec == Init /\ [][Next]_vars

(***************************************************************************)
(* get_action called directly, on any state and any token kind.            *)
(***************************************************************************)
\* How far past the declared states and terminals the calls range.
MaxProbe == 2
ProbeStates == (0 - MaxProbe)..(NUM_STATES + MaxProbe)
ProbeKinds == 0..(NUM_TERMINALS + MaxProbe)

InitLookup ==
    /\ pc = "idle"
    /\ debug_mode \in BOOLEAN
    /\ stack = init_parser_stack
    /\ current_state = 0
    /\ error_count = 0
    /\ input = NoStream
    /\ debug_file = 0
    /\ open_files = {}
    /\ step = 0
    /\ result = NoResult
    /\ step_number = 0
    /\ trace = << >>
    /\ parses = 0
    /\ call = NoCall
    /\ decided = << >>
    /\ shifted = << >>
    /\ prev = NoPrev
    /\ argc = 2
    /\ exit_status = NoExit
    /\ output_file = NoName
    /\ placeholders = 0
    /\ query \in [state : ProbeStates, token_type : ProbeKinds, answered : {FALSE},
                  value : {0}]

Lookup ==
    /\ ~query.answered
    /\ query' = [query EXCEPT !.answered = TRUE,
                              !.value = get_action(tables, query.state, query.token_type)]
    /\ UNCHANGED <<pc, parser, open_files, step, result, step_number, trace, history, process>>

NextLookup == Lookup

SpecLookup == InitLookup /\ [][NextLookup]_vars

(***************************************************************************)
(* main's call of generate_output_filename on its argument, alone.         *)
(***************************************************************************)
InitName ==
    /\ pc = "start"
    /\ debug_mode = FALSE
    /\ stack = << >>
    /\ current_state = 0
    /\ error_count = 0
    /\ input = NoStream
    /\ debug_file = 0
    /\ open_files = {}
    /\ step = 0
    /\ result = NoResult
    /\ step_number = 0
    /\ trace = << >>
    /\ parses = 0
    /\ call = NoCall
    /\ decided = << >>
    /\ shifted = << >>
    /\ prev = NoPrev
    /\ query = NoQuery
    /\ argc = 2
    /\ exit_status = NoExit
    /\ placeholders = 0
    /\ output_file \in [input_file : Paths, build : Builds, computed : {FALSE},
                        name : {<< >>}]

NameOutput ==
    /\ ~output_file.computed
    /\ output_file' =
          [output_file EXCEPT
              !.computed = TRUE,
              !.name = IF output_file.build = "utils.c"
                       THEN generate_output_filename(output_file.input_file)
                       ELSE main_generate_output_filename(output_file.input_file)]
    /\ UNCHANGED <<pc, parser, open_files, step, result, step_number, trace, history,
                   query, argc, exit_status, placeholders>>

NextName == NameOutput

SpecName == InitName /\ [][NextName]_vars

(***************************************************************************)
(* Properties.                                                             *)
(***************************************************************************)
\* The last call entered the loop, from the initial configuration: the stack
\* held the one entry (0, "$").
FromInitial == call.ran /\ call.start = init_parser_stack
InLoop == pc \in {"running", "done"}
Returned == pc = "idle"

Shift(state) == Decision(ACTION_SHIFT, state)
Reduce(production) == Decision(ACTION_REDUCE, production)
Accept == Decision(ACTION_ACCEPT, 0)
Error == Decision(ACTION_ERROR, 0)

Types(tokens) == [i \in 1..Len(tokens) |-> tokens[i].type]

\* C1: every sentence of the grammar, given to parser_parse from the initial
\* configuration, is accepted: the call returns success = true.
C1_EverySentenceAccepted ==
    (Returned /\ FromInitial /\ DerivesS(call.file)) => result.success

\* C2: on README's Test Case 1 the decided actions begin Shift, Reduce 7,
\* Reduce 5, Reduce 3, Shift, Shift, Reduce 7, Reduce 5, Shift, Shift, and the
\* call returns success = true without an Error step.
C2_TestCase1Accepted ==
    (Returned /\ FromInitial /\ call.file = TestInput1) =>
        /\ Len(decided) >= 10
        /\ SubSeq(decided, 1, 10) =
              <<Shift(5), Reduce(7), Reduce(5), Reduce(3), Shift(6), Shift(5), Reduce(7),
                Reduce(5), Shift(7), Shift(4)>>
        /\ result.success
        /\ \A i \in 1..Len(decided) : decided[i].type # ACTION_ERROR

\* C3, as the claim states it: the input NUM is accepted by Shift, Reduce 7,
\* Reduce 5, Reduce 3, Reduce 1 (s -> e), Accept, in six steps.
C3_SingleNumSixSteps ==
    (Returned /\ FromInitial /\ call.file = <<TOKEN_NUM>>) =>
        /\ decided = <<Shift(5), Reduce(7), Reduce(5), Reduce(3), Reduce(1), Accept>>
        /\ result.success
        /\ result.steps_taken = 6

\* C3, amended: the input NUM is accepted by Shift, Reduce 7 (f -> NUM),
\* Reduce 5 (t -> f), Reduce 3 (e -> t), Accept, with no Reduce by s -> e, in
\* five steps counting the Accept step.
C3_SingleNumFiveSteps ==
    (Returned /\ FromInitial /\ call.file = <<TOKEN_NUM>>) =>
        /\ decided = <<Shift(5), Reduce(7), Reduce(5), Reduce(3), Accept>>
        /\ result.success
        /\ result.steps_taken = 5

C3_Witness ==
    Returned /\ FromInitial /\ call.file = <<TOKEN_NUM>> /\ result.steps_taken = 5

\* C4: on README's Test Case 3 (NUM PLUS STAR NUM RPAREN) the call decides
\* Shift, Reduce 7, Reduce 5, Reduce 3, Shift and then Error, with lookahead
\* STAR on top state 6, the state the Shift of PLUS entered; the tokens after
\* STAR are never scanned.
C4_TestCase3FailsAtStar ==
    (FromInitial /\ call.file = TestInput3) =>
        /\ InLoop => input.scanned <= 3
        /\ pc = "done" =>
              /\ decided = <<Shift(5), Reduce(7), Reduce(5), Reduce(3), Shift(6), Error>>
              /\ LookAhead.type = TOKEN_STAR
              /\ input.cur = 3
              /\ TopState = 6
              /\ stack[Len(stack)].symbol.type = TOKEN_PLUS
        /\ Returned => ~result.success /\ result.steps_taken = 6

C4_Witness ==
    pc = "done" /\ FromInitial /\ call.file = TestInput3 /\ Len(decided) = 6

\* C5: on the empty input the call fails at step 1: success = false,
\* steps_taken = 1, the one action decided is Error, and with tracing on the
\* trace holds the one record of that ERROR step.
C5_EmptyInputFailsAtStepOne ==
    (FromInitial /\ call.file = << >> /\ (pc = "done" \/ Returned)) =>
        /\ ~result.success
        /\ step = 1
        /\ decided = <<Error>>
        /\ Returned => result.steps_taken = 1
        /\ debug_mode => Len(trace) = 1 /\ trace[1].operation = "ERROR"

C5_Witness ==
    /\ Returned /\ FromInitial /\ call.file = << >>
    /\ debug_mode /\ Len(trace) = 1 /\ result.steps_taken = 1

\* C6: in a call that succeeded, the tokens pushed by its Shift steps are, in
\* order, the tokens of the input file before end-of-input, each once.
C6_ShiftedIsInput ==
    (call.ran /\ (pc = "done" \/ Returned) /\ result.success) =>
        /\ Types(shifted) = call.file
        /\ \A i \in 1..Len(shifted) : shifted[i] = scan_token(call.file, i, parses)

C6_Witness ==
    Returned /\ call.ran /\ result.success /\ Len(call.file) >= 3 /\ Len(shifted) >= 3

\* C7: two calls on the same token sequence, also one after the other on the
\* same Parser, end alike: same success, same steps_taken, same actions.
C7_RepeatedParsesAgree ==
    (Returned /\ call.ran /\ prev.valid /\ prev.file = call.file) =>
        /\ result.success = prev.success
        /\ result.steps_taken = prev.steps_taken
        /\ decided = prev.decided

\* C8: every row init_parsing_tables writes, and every state a Shift or a
\* goto entry leads to, is below the number of states of the table.
C8_TableHoldsEveryState ==
    pc # "start" =>
        \A k \in 1..Len(init_parsing_tables) :
            LET w == init_parsing_tables[k]
            IN  /\ w.state < tables.num_states
                /\ w.tbl = "goto" => w.val < tables.num_states
                /\ (w.tbl = "action" /\ automaton_get_action_type(w.val) = ACTION_SHIFT)
                      => automaton_get_action_value(w.val) < tables.num_states

\* C9: get_action, for any state and any token kind, reads inside the table
\* or not at all, returns a value of one of the four action types, and
\* returns Error where init_parsing_tables declares no entry.
Declared(state, token_type) ==
    \E k \in 1..Len(init_parsing_tables) :
        /\ init_parsing_tables[k].tbl = "action"
        /\ init_parsing_tables[k].state = state
        /\ init_parsing_tables[k].sym = token_type

C9_GetActionTotal ==
    query.answered =>
        /\ query.value # OutOfRange
        /\ automaton_get_action_type(query.value)
              \in {ACTION_SHIFT, ACTION_REDUCE, ACTION_ACCEPT, ACTION_ERROR}
        /\ ~Declared(query.state, query.token_type)
              => automaton_get_action_type(query.value) = ACTION_ERROR

C9_Witness ==
    /\ query.answered
    /\ query.state > NUM_STATES
    /\ query.token_type > NUM_TERMINALS
    /\ automaton_get_action_type(query.value) = ACTION_ERROR

\* C10: with a lookahead of kind INVALID the action is the Error action, on
\* the top state and on every state of the automaton, and the call fails on
\* that token: the step is an Error step reporting the token's position, with
\* every token before it shifted and the token itself not.
AutomatonStates == {init_parsing_tables[k].state : k \in 1..Len(init_parsing_tables)}

C10_InvalidTokenIsError ==
    (InLoop /\ ~stack_is_empty(stack) /\ LookAhead.type = TOKEN_INVALID) =>
        /\ ActionValue = automaton_create_action(ACTION_ERROR, 0)
        /\ \A s \in AutomatonStates :
              get_action(tables, s, TOKEN_INVALID) = automaton_create_action(ACTION_ERROR, 0)
        /\ pc = "done" =>
              /\ ~result.success
              /\ decided[Len(decided)] = Error
              /\ result.error_message.position = LookAhead.position
              /\ Len(shifted) = input.cur - 1
              /\ \A i \in 1..Len(shifted) : shifted[i].type # TOKEN_INVALID

C10_Witness ==
    /\ pc = "done" /\ LookAhead.type = TOKEN_INVALID
    /\ Len(shifted) >= 1 /\ decided[Len(decided)] = Error

\* C11: a step whose action lookup yields Error ends the call there (unless
\* the process traps on a destroyed token): success = false, error_line the
\* lookahead's line, a message with its line, position and lexeme, the stack
\* and the stream as they were, one step counted; after it no step follows,
\* only the return.
C11_ErrorStepHalts ==
    [][/\ (pc = "running" /\ ~stack_is_empty(stack) /\ ActionType = ACTION_ERROR
              /\ pc' # "crashed")
          => /\ pc' = "done"
             /\ ~result'.success
             /\ result'.error_line = LookAhead.line_number
             /\ result'.error_message.line = LookAhead.line_number
             /\ result'.error_message.position = LookAhead.position
             /\ result'.error_message.lexeme = LookAhead.lexeme
             /\ stack' = stack
             /\ input' = input
             /\ step' = step + 1
             /\ decided' = Append(decided, Error)
       /\ pc = "done"
          => /\ pc' = "idle"
             /\ decided' = decided
             /\ stack' = stack
             /\ result'.success = result.success
             /\ result'.error_message = result.error_message
      ]_vars

C11_Witness ==
    /\ pc = "done" /\ ~result.success /\ decided[Len(decided)] = Error
    /\ Len(decided) >= 3 /\ Len(stack) >= 2
    /\ result.error_message.lexeme = LookAhead.lexeme
    /\ result.error_message.position >= 1

\* C12: main returns 0 exactly when its parse reached Accept; a wrong
\* argument count, a file that cannot be opened, a syntax error and a failed
\* shift or reduce all return a nonzero status, and no process that has not
\* returned from main has status 0.
C12_ExitStatusIsAccept ==
    /\ pc = "exited" =>
          /\ exit_status \in {EXIT_SUCCESS, EXIT_FAILURE}
          /\ exit_status = EXIT_SUCCESS <=>
                /\ argc = 2
                /\ call.ran
                /\ decided # << >>
                /\ decided[Len(decided)] = Accept
    /\ pc # "exited" => exit_status = NoExit

C12_Witness ==
    /\ pc = "exited" /\ exit_status = EXIT_SUCCESS
    /\ Len(decided) >= 5 /\ decided[Len(decided)] = Accept

\* C13: a parser_parse call whose trace file cannot be created or whose input
\* file cannot be opened returns at once: success = false, an error message,
\* steps_taken = 0, no step of the driver taken (stack, step counters and
\* decided actions untouched) and no trace record written.
C13_OpenFailureReturnsAtOnce ==
    [][(pc = "idle" /\ parses' = parses + 1 /\ ~call'.ran)
          => /\ pc' = "idle"
             /\ ~result'.success
             /\ result'.error_message # NoMessage
             /\ result'.error_message.text
                   \in {"Failed to open debug file", "Failed to open input file"}
             /\ result'.steps_taken = 0
             /\ step' = 0
             /\ decided' = << >>
             /\ trace' = << >>
             /\ step_number' = step_number
             /\ stack' = stack
             /\ current_state' = current_state
      ]_vars

C13_Witness ==
    /\ pc = "idle" /\ parses = 2 /\ ~call.ran /\ prev.valid /\ debug_mode
    /\ result.error_message.text = "Failed to open input file"
    /\ result.steps_taken = 0

\* C14: when a parser_parse call has returned, none of the files it opened
\* (its input file, its trace file) is still open.
C14_FilesClosedOnReturn ==
    (pc = "idle" /\ parses >= 1) => \A f \in open_files : f.n # parses

\* The Operation line the driver passes to write_debug_output for each
\* action type.
OperationOf(type) ==
    IF type = ACTION_SHIFT THEN "SHIFT"
    ELSE IF type = ACTION_REDUCE THEN "REDUCE"
    ELSE IF type = ACTION_ACCEPT THEN "ACCEPT"
    ELSE "ERROR"

\* C15: with tracing on, the trace of a call holds one record per step taken,
\* in step order and of the step's kind: as many records as steps (and as
\* steps_taken once the call returned), and after a syntax error the ERROR
\* record last, behind the records of all earlier steps.
C15_OneRecordPerStep ==
    (debug_mode /\ call.ran /\ pc \in {"running", "done", "idle"}) =>
        /\ Len(trace) = step
        /\ Len(trace) = Len(decided)
        /\ \A i \in 1..Len(trace) : trace[i].operation = OperationOf(decided[i].type)
        /\ Returned => Len(trace) = result.steps_taken

C15_Witness ==
    /\ debug_mode /\ call.ran /\ Returned /\ ~result.success
    /\ Len(trace) >= 4 /\ Len(trace) = result.steps_taken
    /\ trace[Len(trace)].operation = "ERROR"
    /\ \E i \in 1..Len(trace) : trace[i].operation = "SHIFT"
    /\ \E i \in 1..Len(trace) : trace[i].operation = "REDUCE"

\* C16: the record a step writes shows the configuration the step found: the
\* stack as it was before the step (for a stack that holds no destroyed
\* token, whose render is undefined), as Current State the top state the
\* action was looked up on, and as Input Position the lookahead token first.
C16_RecordIsPreActionSnapshot ==
    [][(debug_mode /\ pc = "running" /\ step' = step + 1 /\ ~HasDangling)
          => /\ Len(trace') = Len(trace) + 1
             /\ SubSeq(trace', 1, Len(trace)) = trace
             /\ LET record == trace'[Len(trace')]
                IN  /\ record.stack = stack_to_string(stack, parses, input.valid, "valid")
                    /\ record.current_state = TopState
                    /\ Len(record.input_pos) >= 1
                    /\ record.input_pos[1] = token_to_string(LookAhead)
      ]_vars

C16_Witness ==
    /\ debug_mode /\ pc = "running" /\ Len(trace) >= 2
    /\ decided[Len(decided)].type = ACTION_SHIFT
    /\ Len(trace[Len(trace)].stack) < Len(stack_to_string(stack, parses, input.valid, "valid"))
    /\ trace[Len(trace)].current_state # TopState
    /\ trace[Len(trace)].input_pos[1] # token_to_string(LookAhead)

\* C17: the step counter of a call counts each iteration of the driver loop
\* once, the last one (Accept or Error) included: it equals the number of
\* actions decided so far, and steps_taken equals their number at the return.
C17_StepsCountDecidedActions ==
    /\ (call.ran /\ InLoop) => step = Len(decided)
    /\ (call.ran /\ Returned) => result.steps_taken = Len(decided)

C17_Witness ==
    /\ call.ran /\ Returned /\ result.success
    /\ result.steps_taken = Len(decided) /\ Len(decided) >= 9
    /\ decided[Len(decided)] = Accept

\* C18: the Action line of the record of each step is "Shift to state S" for
\* a Shift to S, "Reduce by rule R: <rule text>" for a Reduce by R, "Accept"
\* for an Accept and "Invalid syntax" for an Error, under the Operation line
\* SHIFT, REDUCE, ACCEPT or ERROR.
C18_ActionLineOfEachKind ==
    (debug_mode /\ call.ran /\ pc \in {"running", "done", "idle"}) =>
        \A i \in 1..Len(trace) :
            LET type == decided[i].type
                value == decided[i].value
            IN  /\ trace[i].operation = OperationOf(type)
                /\ trace[i].action =
                      IF type = ACTION_SHIFT THEN <<"Shift to state", value, "">>
                      ELSE IF type = ACTION_REDUCE
                           THEN <<"Reduce by rule", value, grammar_productions[value].rule_string>>
                      ELSE IF type = ACTION_ACCEPT THEN <<"Accept", 0, "">>
                      ELSE <<"Invalid syntax", 0, "">>

\* The entries of a stack as the claim renders them: bottom first, top last,
\* one space between two entries.
EntriesBottomToTop(s) ==
    [n \in 1..(IF Len(s) = 0 THEN 0 ELSE 2 * Len(s) - 1) |->
        IF n % 2 = 0 THEN Text(" ")
        ELSE Element(s[(n + 1) \div 2].state, token_to_string(s[(n + 1) \div 2].symbol))]

NameWithoutDirAndExtension(path) ==
    LET seps == {i \in 1..Len(path) : path[i] = "/"}
        back == {i \in 1..Len(path) : path[i] = "\\"}
        dir == IF seps # {} THEN CHOOSE i \in seps : \A j \in seps : j <= i
               ELSE IF back # {} THEN CHOOSE i \in back : \A j \in back : j <= i
               ELSE 0
        dots == {i \in (dir + 1)..Len(path) : path[i] = "."}
        end == IF dots = {} THEN Len(path)
               ELSE (CHOOSE i \in dots : \A j \in dots : j <= i) - 1
    IN  [k \in 1..(end - dir) |-> path[dir + k]] \o <<"_p3dbg.txt">>

\* C20: for every input path the trace output name is the path without its
\* directory prefix and without the final extension of the base name,
\* followed by _p3dbg.txt (t/x.x gives x_p3dbg.txt).
C20_OutputNameIsBaseP3dbg ==
    output_file.computed =>
        output_file.name = NameWithoutDirAndExtension(output_file.input_file)

\* C21: the driver loop terminates on every input.  Every iteration counts
\* one step and falls into a case of the switch, and a call never takes more
\* than four steps per token of its input, end-of-input included, and one:
\* at most one Shift per token, three Reduces before the next Shift, and the
\* Accept or Error that ends the loop.
C21_LoopTerminates ==
    /\ (call.ran /\ InLoop) => step <= 4 * (Len(call.file) + 1) + 1
    /\ (pc = "running" /\ ~stack_is_empty(stack))
          => ActionType \in {ACTION_SHIFT, ACTION_REDUCE, ACTION_ACCEPT, ACTION_ERROR}
    /\ (pc = "done" /\ decided # << >>)
          => \/ decided[Len(decided)].type \in {ACTION_ACCEPT, ACTION_ERROR}
             \/ result.error_message.text = "Reduce operation failed"

C21_Witness ==
    /\ pc = "done" /\ FromInitial /\ Len(call.file) >= 5 /\ Len(decided) >= 12
    /\ decided[Len(decided)].type \in {ACTION_ACCEPT, ACTION_ERROR}

\* C22: a Shift step pushes one entry, the state of the Shift action with
\* the lookahead token, on a stack otherwise unchanged, and advances the
\* stream by one token: the new lookahead is the token behind the shifted one.
C22_ShiftPushesOneAndAdvancesOne ==
    [][(pc = "running" /\ ~stack_is_empty(stack) /\ ActionType = ACTION_SHIFT
           /\ pc' # "crashed")
          => /\ Len(stack') = Len(stack) + 1
             /\ SubSeq(stack', 1, Len(stack)) = stack
             /\ stack'[Len(stack')].state = ActionParam
             /\ stack'[Len(stack')].symbol = LookAhead
             /\ current_state' = ActionParam
             /\ input'.cur = input.cur + 1
             /\ input'.file = input.file
             /\ Current(input') = scan_token(input.file, input.cur + 1, input.gen)
             /\ pc' = "running"
      ]_vars

C22_Witness ==
    /\ pc = "running" /\ decided # << >>
    /\ decided[Len(decided)].type = ACTION_SHIFT
    /\ Len(stack) >= 3 /\ Len(shifted) >= 2
    /\ stack[Len(stack)].symbol = shifted[Len(shifted)]
    /\ input.cur = Len(shifted) + 1
    /\ LookAhead.type # TOKEN_EOF

\* C23: a Reduce by production p that succeeds pops rhs_length(p) entries
\* and pushes one, whose state is the goto of the state then on top with
\* lhs(p) and whose symbol is tagged lhs(p): the stack changes in size by
\* 1 - rhs_length(p) and is unchanged below the popped entries.
C23_ReducePopsRhsAndPushesGoto ==
    [][(pc = "running" /\ ~stack_is_empty(stack) /\ ActionType = ACTION_REDUCE
           /\ pc' = "running")
          => LET p == grammar_productions[ActionParam]
                 below == Len(stack) - p.rhs_length
             IN  /\ below >= 1
                 /\ Len(stack') = below + 1
                 /\ Len(stack') - Len(stack) = 1 - p.rhs_length
                 /\ SubSeq(stack', 1, below) = SubSeq(stack, 1, below)
                 /\ stack'[below + 1].state
                       = get_goto_state(tables, stack[below].state, p.lhs)
                 /\ stack'[below + 1].state >= 0
                 /\ stack'[below + 1].symbol.type = p.lhs
                 /\ current_state' = stack'[below + 1].state
      ]_vars

C23_Witness ==
    /\ pc = "running" /\ decided # << >>
    /\ decided[Len(decided)] = Reduce(2)
    /\ Len(stack) = 2 /\ stack[2].state = 1
    /\ stack[2].symbol.type = NON_TERMINAL_E


\* C24: a Reduce step consumes no input: the lookahead token and the
\* position of the token stream are the same after the step as before it,
\* so the next lookup is made with the same lookahead.
C24_ReduceKeepsLookahead ==
    [][(pc = "running" /\ ~stack_is_empty(stack) /\ ActionType = ACTION_REDUCE)
          => /\ input' = input
             /\ input'.cur = input.cur
             /\ LookAhead' = LookAhead
             /\ pc' = "running"
                   => ActionValue' = get_action(tables, stack_peek(stack').state,
                                                LookAhead.type)
      ]_vars

C24_Witness ==
    /\ pc = "running" /\ decided # << >>
    /\ decided[Len(decided)].type = ACTION_REDUCE
    /\ Len(shifted) >= 1 /\ input.cur = Len(shifted) + 1
    /\ LookAhead.type = TOKEN_PLUS
    /\ ActionType = ACTION_SHIFT


\* C25: from parser_create on, in every state of every parse, the stack is
\* non-empty and its bottom entry is (state 0, end-of-input placeholder):
\* no Shift and no Reduce removes or replaces it.
C25_BottomEntryStays ==
    pc \in {"idle", "running", "done"}
       => /\ ~stack_is_empty(stack)
          /\ stack[1] = init_parser_stack[1]
          /\ stack[1].state = 0
          /\ stack[1].symbol.type = TOKEN_EOF

C25_Witness ==
    /\ pc = "running" /\ Len(stack) = 2 /\ Len(decided) >= 8
    /\ decided[Len(decided)] = Reduce(2)
    /\ stack[1] = init_parser_stack[1]


\* The symbols perform_reduce pushes are the tokens it creates with the
\* lexeme "non-terminal"; every other symbol pushed is a token of the input.
IsPlaceholder(symbol) == symbol.gen = 0 /\ symbol.lexeme = "non-terminal"

\* The automaton's transition from a state on a stack symbol: the goto target
\* for a placeholder, the target of the Shift for a token, -1 where the
\* tables hold neither.
Transition(state, symbol) ==
    IF IsPlaceholder(symbol)
    THEN get_goto_state(tables, state, symbol.type)
    ELSE LET action == get_action(tables, state, symbol.type)
         IN  IF automaton_get_action_type(action) = ACTION_SHIFT
             THEN automaton_get_action_value(action)
             ELSE -1

\* C26: in every state of a parse, the state of each stack entry above the
\* bottom one is the automaton's transition from the state below it on the
\* entry's symbol, so the symbols spell, bottom to top, a path of the
\* automaton from state 0 (a viable prefix).  Entries whose token an earlier
\* call destroyed have no symbol left to read and are passed over.
C26_StackSpellsAutomatonPath ==
    InLoop => \A i \in 2..Len(stack) :
                  ~Dangling(stack[i].symbol, parses, input.valid)
                     => /\ stack[i].state = Transition(stack[i - 1].state, stack[i].symbol)
                        /\ stack[i].state \in 1..11

C26_Witness ==
    /\ pc = "running" /\ Len(stack) >= 5
    /\ ~HasDangling
    /\ \E i \in 2..Len(stack) : IsPlaceholder(stack[i].symbol)
    /\ \E i \in 2..Len(stack) : ~IsPlaceholder(stack[i].symbol)
    /\ stack[Len(stack)].state = 9


\* C27: whatever the input, every Reduce the driver decides succeeds: the
\* pops of the right-hand side do not underflow and the goto of the state
\* then on top with the left-hand side is defined, so no parse ends with
\* "Reduce operation failed".
C27_ReduceNeverFails ==
    /\ (pc = "running" /\ ~stack_is_empty(stack) /\ ActionType = ACTION_REDUCE)
          => LET production == tables.productions[ActionParam]
                 popped == PopLoop(stack, production.rhs_length)
             IN  /\ Len(stack) > production.rhs_length
                 /\ popped.found
                 /\ get_goto_state(tables, stack_peek(popped.stack).state, production.lhs) >= 0
                 /\ perform_reduce(tables, stack, current_state, ActionParam).ok
    /\ result.error_message.text # "Reduce operation failed"
    /\ prev.valid => \A i \in 1..Len(prev.decided) :
                         prev.decided[i].type = ACTION_REDUCE => i < Len(prev.decided)

C27_Witness ==
    /\ pc = "done" /\ result.success
    /\ Cardinality({i \in 1..Len(decided) : decided[i].type = ACTION_REDUCE}) >= 8
    /\ \E i \in 1..Len(decided) : decided[i] = Reduce(2)
    /\ \E i \in 1..Len(decided) : decided[i] = Reduce(4)


(***************************************************************************)
(* A parse on a stack the driver did not build.  parser.h declares         *)
(* perform_shift for the callers of the library, so a caller can push      *)
(* entries of any state on the stack of an idle Parser before it calls     *)
(* parser_parse, which starts from the stack it finds.                     *)
(***************************************************************************)
\* The most perform_shift calls the caller makes before parser_parse.
MaxClientCalls == 2
ClientStates == 0..NUM_STATES
ClientToken == Allocated(token_create(TOKEN_NUM, Lexeme(TOKEN_NUM), 0, 0), 0)

InitFault ==
    /\ pc = "idle"
    /\ debug_mode \in BOOLEAN
    /\ stack = init_parser_stack
    /\ current_state = 0
    /\ error_count = 0
    /\ input = NoStream
    /\ debug_file = 0
    /\ open_files = {}
    /\ step = 0
    /\ result = NoResult
    /\ step_number = 0
    /\ trace = << >>
    /\ parses = 0
    /\ call = NoCall
    /\ decided = << >>
    /\ shifted = << >>
    /\ prev = NoPrev
    /\ argc = 2
    /\ exit_status = NoExit
    /\ output_file = NoName
    /\ placeholders = 0
    /\ query = NoQuery

client_perform_shift(state) ==
    /\ pc = "idle"
    /\ parses = 0
    /\ Len(stack) < 1 + MaxClientCalls
    /\ LET r == perform_shift(stack, current_state, state, ClientToken)
       IN  /\ stack' = r.stack
           /\ current_state' = r.current_state
    /\ UNCHANGED <<pc, debug_mode, error_count, input, debug_file, open_files, step, result,
                   step_number, trace, history, query, process>>

NextFault ==
    \/ \E state \in ClientStates : client_perform_shift(state)
    \/ \E file \in ReuseInputs, debug_ok \in BOOLEAN, input_ok \in BOOLEAN :
          parses = 0 /\ parser_parse_enter(file, debug_ok, input_ok)
    \/ DriverShift("valid")
    \/ DriverReduce("valid")
    \/ DriverAccept("valid")
    \/ DriverError("valid")
    \/ parser_parse_exit

SpecFault == InitFault /\ [][NextFault]_vars

\* The Reduce about to be made fails: its pops underflow or the goto of the
\* state they uncover is undefined.
ReduceFails ==
    /\ pc = "running" /\ ~stack_is_empty(stack) /\ ActionType = ACTION_REDUCE
    /\ ~perform_reduce(tables, stack, current_state, ActionParam).ok

\* C28: a Reduce that meets a stack underflow or an undefined goto ends the
\* parse at that step: success stays false, the result carries a
\* diagnostic, nothing is pushed (the stack is what the pops left of it),
\* and no step follows but the return.
C28_FailedReduceAborts ==
    [][/\ ReduceFails
          => /\ pc' = "done"
             /\ result'.success = FALSE
             /\ result'.error_message.text = "Reduce operation failed"
             /\ Len(stack') < Len(stack)
             /\ stack' = SubSeq(stack, 1, Len(stack'))
             /\ step' = step + 1
       /\ (pc = "done" /\ result.error_message.text = "Reduce operation failed")
          => /\ pc' = "idle"
             /\ result'.success = FALSE
             /\ result'.steps_taken = step
             /\ stack' = stack /\ decided' = decided /\ step' = step
      ]_vars

C28_Witness ==
    /\ pc = "idle" /\ call.ran /\ ~result.success
    /\ result.error_message.text = "Reduce operation failed"
    /\ decided # << >> /\ decided[Len(decided)].type = ACTION_REDUCE
    /\ result.steps_taken = Len(decided)
    /\ ~stack_is_empty(stack) /\ Len(stack) < Len(call.start)


\* The last action the driver decided in the current call was Accept.
LastDecidedAccept == decided # << >> /\ decided[Len(decided)].type = ACTION_ACCEPT

\* C29: the result's success flag is true exactly when the last action
\* decided was Accept, and an Accept step ends the loop with the stack, the
\* current state and the lookahead as it found them.
C29_SuccessIffAccept ==
    [][/\ result.success <=> LastDecidedAccept
       /\ result'.success <=> LastDecidedAccept'
       /\ (pc = "running" /\ ~stack_is_empty(stack) /\ ActionType = ACTION_ACCEPT
              /\ pc' # "crashed")
          => /\ pc' = "done"
             /\ LastDecidedAccept'
             /\ stack' = stack
             /\ current_state' = current_state
             /\ input' = input
             /\ LookAhead' = LookAhead
       /\ (pc = "done" /\ LastDecidedAccept) => pc' = "idle" /\ decided' = decided
      ]_vars

C29_Witness ==
    /\ pc = "done" /\ result.success /\ LastDecidedAccept
    /\ Len(decided) >= 12
    /\ Len(stack) = 2 /\ stack[2].state = 1
    /\ LookAhead.type = TOKEN_EOF


\* C30: at the first step of the driver in every parser_parse call, also a
\* call that follows others on the same Parser, the stack holds the single
\* entry (state 0, end-of-input placeholder) and the lookahead is the first
\* token of the call's input.
C30_EveryCallStartsFresh ==
    (pc = "running" /\ step = 0)
       => /\ stack = init_parser_stack
          /\ Len(stack) = 1
          /\ input.file = call.file
          /\ LookAhead = scan_token(call.file, 1, parses)


(***************************************************************************)
(* The stack functions called directly.  stack.h declares them and         *)
(* parser.h shows the Parser's fields, so a caller can push on and pop     *)
(* from the stack of an idle Parser; query keeps what the last stack_pop   *)
(* returned: value 0 for NULL, else value 1 with the element's state and   *)
(* the kind of its symbol.                                                 *)
(***************************************************************************)
Returned_element(r) ==
    [state |-> r.element.state, token_type |-> r.element.symbol.type, answered |-> TRUE,
     value |-> IF r.found THEN 1 ELSE 0]

client_stack_pop ==
    /\ pc = "idle"
    /\ parses = 0
    /\ LET r == stack_pop(stack)
       IN  /\ stack' = r.stack
           /\ query' = Returned_element(r)
    /\ UNCHANGED <<pc, debug_mode, current_state, error_count, input, debug_file, open_files,
                   step, result, step_number, trace, history, process>>

\* The highest state the caller pushes in the sessions of stack calls.
MaxPushedState == 2

NextStack ==
    \/ \E state \in 0..MaxPushedState : client_perform_shift(state)
    \/ client_stack_pop

SpecStack == InitFault /\ [][NextStack]_vars

\* C31 as the specification words it: stack_pop returns none and removes
\* nothing when the stack holds only the bottom sentinel entry, and removes
\* and returns the top entry of any other stack that has one.
C31_PopSparesSentinel ==
    [][client_stack_pop
          => IF stack = init_parser_stack \/ stack_is_empty(stack)
             THEN stack' = stack /\ query'.value = 0
             ELSE /\ stack' = SubSeq(stack, 1, Len(stack) - 1)
                  /\ query' = Returned_element([found |-> TRUE, element |-> stack[Len(stack)]])
      ]_vars

\* C31, amended: stack_pop returns none and removes nothing when the stack
\* is empty; in every other case, the stack that holds only the bottom
\* sentinel entry included, it removes and returns the current top entry.
C31_PopFailsOnlyWhenEmpty ==
    [][client_stack_pop
          => IF stack_is_empty(stack)
             THEN stack' = stack /\ query'.value = 0
             ELSE /\ stack' = SubSeq(stack, 1, Len(stack) - 1)
                  /\ Len(stack') = Len(stack) - 1
                  /\ query'.value = 1
                  /\ query'.state = stack[Len(stack)].state
                  /\ query'.token_type = stack[Len(stack)].symbol.type
      ]_vars

C31_Witness ==
    /\ stack_is_empty(stack)
    /\ query.answered /\ query.value = 1
    /\ query.state = 0 /\ query.token_type = TOKEN_EOF


\* C32: every symbol a Reduce pushes is a placeholder whose kind is none of
\* the terminal kinds NUM, PLUS, STAR, LPAREN, RPAREN, EOF and not INVALID:
\* no stack entry made by a Reduce carries a terminal kind.
C32_PlaceholderKindIsNoTerminal ==
    [][(pc = "running" /\ ~stack_is_empty(stack) /\ ActionType = ACTION_REDUCE
           /\ pc' = "running")
          => /\ IsPlaceholder(stack'[Len(stack')].symbol)
             /\ stack'[Len(stack')].symbol.type
                   \notin {TOKEN_NUM, TOKEN_PLUS, TOKEN_STAR, TOKEN_LPAREN, TOKEN_RPAREN,
                           TOKEN_EOF, TOKEN_INVALID}
      ]_vars


\* The placeholder tokens the entries of the stack hold.
PlaceholdersOnStack == Cardinality({i \in 1..Len(stack) : IsPlaceholder(stack[i].symbol)})

\* C33: a placeholder token a Reduce created is destroyed when the entry
\* that holds it is popped, so the placeholders alive are those on the
\* stack, and after parser_free none is left.
C33_PlaceholdersDieWithTheirEntries ==
    /\ pc \in {"idle", "running", "done"} => placeholders = PlaceholdersOnStack
    /\ pc \in {"freed", "exited"} => placeholders = 0


\* C34: whenever parser_parse returns success = true, the tokens of its
\* input before the end of input are a sentence of the grammar.
C34_AcceptedInputIsSentence ==
    (pc \in {"done", "idle"} /\ call.ran /\ result.success) => DerivesS(call.file)


\* C35: whenever the driver decides Accept, the lookahead is the end-of-input
\* token and the stack holds exactly two entries, the bottom (state 0,
\* end-of-input placeholder) and above it (state 1, placeholder for e).
C35_AcceptConfiguration ==
    (pc = "running" /\ ~stack_is_empty(stack) /\ ActionType = ACTION_ACCEPT)
       => /\ LookAhead.type = TOKEN_EOF
          /\ Len(stack) = 2
          /\ stack[1] = init_parser_stack[1]
          /\ stack[2].state = 1
          /\ IsPlaceholder(stack[2].symbol)
          /\ stack[2].symbol.type = NON_TERMINAL_E

C35_Witness ==
    /\ pc = "running" /\ ~stack_is_empty(stack) /\ ActionType = ACTION_ACCEPT
    /\ Len(decided) >= 11 /\ Len(shifted) >= 3
    /\ \E i \in 1..Len(decided) : decided[i] = Reduce(2)


\* C36: from parser_create on, also after a Reduce that fails part-way,
\* parser->current_state, the value the trace prints as Current State, is
\* the state of the top stack entry, the state the action lookup uses.
C36_CurrentStateIsTopState ==
    (pc \in {"idle", "running", "done"} /\ ~stack_is_empty(stack))
       => current_state = stack_peek(stack).state


\* C37: in every call, also one that follows others in the same process,
\* the k-th record of the trace is numbered k, the value of the driver's
\* step counter at that step.
C37_StepNumberIsStepCounter ==
    /\ \A k \in 1..Len(trace) : trace[k].step_number = k
    /\ (InLoop /\ call.ran /\ debug_mode /\ trace # << >>)
          => trace[Len(trace)].step_number = step


\* C38: over any sequence of parser_create, parser_parse and parser_free,
\* whenever a driver step renders the stack, no entry names a token that
\* token_stream_free has destroyed.
C38_NoDestroyedTokenIsRead ==
    (pc = "running" /\ ~stack_is_empty(stack)) => ~HasDangling


MaxCodecValue == 3
\* The packed ints decoded directly have the bits MaxTag and below above
\* the value bits, with either sign.
MaxTag == 17

ActionTypes == {ACTION_SHIFT, ACTION_REDUCE, ACTION_ACCEPT, ACTION_ERROR}
CodecValues == (0..MaxCodecValue) \cup ((VALUE_MASK - MaxCodecValue)..VALUE_MASK)
RawActions ==
    LET packed == {tag * (VALUE_MASK + 1) + low : tag \in 0..MaxTag, low \in {0, 1, VALUE_MASK}}
    IN  packed \cup {0 - a - 1 : a \in packed}

InitCodec ==
    /\ pc = "idle"
    /\ debug_mode \in BOOLEAN
    /\ stack = init_parser_stack
    /\ current_state = 0
    /\ error_count = 0
    /\ input = NoStream
    /\ debug_file = 0
    /\ open_files = {}
    /\ step = 0
    /\ result = NoResult
    /\ step_number = 0
    /\ trace = << >>
    /\ parses = 0
    /\ call = NoCall
    /\ decided = << >>
    /\ shifted = << >>
    /\ prev = NoPrev
    /\ argc = 2
    /\ exit_status = NoExit
    /\ output_file = NoName
    /\ placeholders = 0
    /\ \/ query \in [type : ActionTypes, value : CodecValues, action : {0}, created : {TRUE},
                     encoded : {FALSE}, answered : {FALSE}, decoded_type : {ACTION_ERROR},
                     decoded_value : {0}]
       \/ query \in [type : {ACTION_ERROR}, value : {0}, action : RawActions, created : {FALSE},
                     encoded : {TRUE}, answered : {FALSE}, decoded_type : {ACTION_ERROR},
                     decoded_value : {0}]

Encode ==
    /\ ~query.encoded
    /\ query' = [query EXCEPT !.encoded = TRUE,
                              !.action = automaton_create_action(query.type, query.value)]
    /\ UNCHANGED <<pc, parser, open_files, step, result, step_number, trace, history, process>>

Decode ==
    /\ query.encoded /\ ~query.answered
    /\ query' = [query EXCEPT !.answered = TRUE,
                              !.decoded_type = automaton_get_action_type(query.action),
                              !.decoded_value = automaton_get_action_value(query.action)]
    /\ UNCHANGED <<pc, parser, open_files, step, result, step_number, trace, history, process>>

NextCodec == Encode \/ Decode

SpecCodec == InitCodec /\ [][NextCodec]_vars

\* Bits 16 to 19 of a two's complement int, by arithmetic.
Tag(action) == (action % MaskModulus) \div (VALUE_MASK + 1)

\* C40: the packed encoding round-trips: the type decoded from
\* automaton_create_action(t, v) is t, the value decoded is v for Shift and
\* Reduce and 0 for Accept and Error; and every int decodes to one of the
\* four types, Error for every tag that is not Shift's, Reduce's or Accept's.
C40_ActionEncodingRoundTrips ==
    query.answered
       => /\ query.created
             => /\ query.decoded_type = query.type
                /\ query.decoded_value
                      = IF query.type \in {ACTION_SHIFT, ACTION_REDUCE} THEN query.value ELSE 0
          /\ query.decoded_type \in ActionTypes
          /\ query.decoded_type = ACTION_SHIFT <=> Tag(query.action) = 1
          /\ query.decoded_type = ACTION_REDUCE <=> Tag(query.action) = 2
          /\ query.decoded_type = ACTION_ACCEPT <=> Tag(query.action) = 3
          /\ query.decoded_type = ACTION_ERROR <=> Tag(query.action) \notin {1, 2, 3}

C40_Witness ==
    /\ query.answered /\ query.created
    /\ query.type = ACTION_REDUCE /\ query.value = VALUE_MASK
    /\ query.decoded_type = ACTION_REDUCE /\ query.decoded_value = VALUE_MASK

====
